---- MODULE Spec2Model ----
(***************************************************************************)
(* A model of create_leaflet.py: the emoji image cache (get_emoji_image),  *)
(* the text/emoji scanner (draw_text_with_emoji) and the drawing procedure *)
(* (create_leaflet) with its emoji and QR-code downloads.                  *)
(*                                                                         *)
(* Characters are their codepoints (ord).  Strings the program builds      *)
(* (codepoint names, paths, URLs) are sequences of string pieces.  The     *)
(* file system is a function from paths to the state of the file's         *)
(* content: "full" (a complete download) or "partial" (a download that     *)
(* stopped after the file was opened for writing).                         *)
(***************************************************************************)
EXTENDS Integers, Sequences, FiniteSets

VARIABLES
    mode,       \* the entry point in use: "leaflet", "draw" or "get"
    pc,         \* position of the running procedure
    step,       \* create_leaflet: index in EmojiCalls of the next get_emoji_image call
    fs,         \* files on disk: path -> "full" | "partial"
    texts,      \* create_leaflet: source lines of the text/box/line calls made, in order
    last,       \* the most recent get_emoji_image call and what its caller drew
    qr,         \* create_leaflet: what the QR block did in this run
    returned,   \* create_leaflet: its return value (None until it returns)
    first,      \* create_leaflet: this is the first run (it started with /tmp empty)
    clean,      \* this run: no emoji fetch has failed so far
    prevClean,  \* none of the previous run's emoji fetches failed
    text,       \* draw/get: the string argument
    i,          \* draw_text_with_emoji: the index i (0-based, as in the source)
    pieces,     \* draw_text_with_emoji: what was handed to drawString / get_emoji_image
    ncalls      \* get: number of direct get_emoji_image calls made

vars == <<mode, pc, step, fs, texts, last, qr, returned, first, clean, prevClean,
          text, i, pieces, ncalls>>

----------------------------------------------------------------------------
(* Bounds of the model *)

MaxLen == 3      \* length of the strings given to the helpers
MaxCalls == 2    \* direct get_emoji_image calls on one argument

(* Program constants *)

Latin1Max == 255            \* ord(c) > 255
EmojiThreshold == 127744    \* 0x1F300
VS16 == 65039               \* 0xFE0F
ZWJ == 8205                 \* 0x200D

None == <<>>
EMOJI_CACHE_DIR == "/tmp/emoji_cache"
qr_path == <<"/tmp/leaflet_qr.png">>
output_path == <<"/root/clawd/projects/contactesQR/mental-health-supports-leaflet.pdf">>

(* Outcomes of one urlretrieve call: the whole body arrives; the request   *)
(* fails before the target file is opened; or the target file is opened    *)
(* (truncated) and the transfer stops or comes up short, which raises.     *)
Outcomes == {"ok", "fail", "partial"}

(* Characters used to build arguments: y-diaeresis (255), ZWJ, VS16, hot   *)
(* beverage (0x2615), regional indicators I and E (0x1F1EE, 0x1F1EA),      *)
(* 0x1F300 itself and telephone receiver (0x1F4DE).                        *)
Alphabet == {255, 8205, 65039, 9749, 127470, 127466, 127744, 128222}
Strings == UNION {[1..n -> Alphabet] : n \in 0..MaxLen}

----------------------------------------------------------------------------
(* get_emoji_image *)

HexDigit == <<"0", "1", "2", "3", "4", "5", "6", "7",
              "8", "9", "a", "b", "c", "d", "e", "f">>

\* f'{n:x}'
RECURSIVE hex(_)
hex(n) == IF n < 16 THEN <<HexDigit[n + 1]>>
          ELSE hex(n \div 16) \o <<HexDigit[(n % 16) + 1]>>

\* a filter that keeps every non-ASCII character
above_ascii(c) == c > 127

\* the characters that take part in the name
above_latin1(c) == c > Latin1Max

\* '-'.join(f'{ord(c):x}' for c in emoji_char if ord(c) > 255)
RECURSIVE join_hex(_)
join_hex(s) == IF s = <<>> THEN <<>>
               ELSE IF Len(s) = 1 THEN hex(s[1])
               ELSE hex(s[1]) \o <<"-">> \o join_hex(Tail(s))

codepoints(emoji_char) == join_hex(SelectSeq(emoji_char, above_latin1))

cache_path(cp) == <<EMOJI_CACHE_DIR, "/">> \o cp \o <<".png">>

emoji_url(cp) ==
    <<"https://cdn.jsdelivr.net/gh/twitter/twemoji@14.0.2/assets/72x72/">> \o cp \o <<".png">>

exists(path, files) == path \in DOMAIN files

Write(files, path, content) ==
    [p \in DOMAIN files \cup {path} |-> IF p = path THEN content ELSE files[p]]

(* urllib.request.urlretrieve(url, filename): opens the URL, then opens    *)
(* filename for writing and copies the body into it; raises when the       *)
(* request fails or the body is shorter than announced, leaving what was   *)
(* written in place.                                                       *)
urlretrieve(path, files, outcome) ==
    CASE outcome = "ok"      -> [fs |-> Write(files, path, "full"), raised |-> FALSE]
      [] outcome = "fail"    -> [fs |-> files, raised |-> TRUE]
      [] outcome = "partial" -> [fs |-> Write(files, path, "partial"), raised |-> TRUE]

(* The result of a call: ret is the returned value; raised says an         *)
(* exception left the function; the other fields record what it did: the   *)
(* codepoint string, the path looked up, whether the file was there, the   *)
(* URL fetched and whether the fetch failed.                               *)

\* a lookup that downloads whether or not the file is there
fetch_always(cp, path, files, outcome) ==
    [ret |-> IF urlretrieve(path, files, outcome).raised THEN None ELSE path,
     raised |-> FALSE, fs |-> urlretrieve(path, files, outcome).fs, cp |-> cp,
     looked |-> path, existed |-> exists(path, files),
     url |-> emoji_url(cp), failed |-> urlretrieve(path, files, outcome).raised]

\* a lookup that hands back the path whatever the download did
fetch_ignoring_failure(cp, path, files, outcome) ==
    IF ~exists(path, files)
    THEN [ret |-> path, raised |-> FALSE, fs |-> urlretrieve(path, files, outcome).fs,
          cp |-> cp, looked |-> path, existed |-> FALSE,
          url |-> emoji_url(cp), failed |-> urlretrieve(path, files, outcome).raised]
    ELSE [ret |-> path, raised |-> FALSE, fs |-> files, cp |-> cp,
          looked |-> path, existed |-> TRUE, url |-> None, failed |-> FALSE]

\* if not os.path.exists(cache_path): try urlretrieve, except return None; return cache_path
fetch_if_missing(cp, path, files, outcome) ==
    IF ~exists(path, files)
    THEN [ret |-> IF urlretrieve(path, files, outcome).raised THEN None ELSE path,
          raised |-> FALSE, fs |-> urlretrieve(path, files, outcome).fs, cp |-> cp,
          looked |-> path, existed |-> FALSE,
          url |-> emoji_url(cp), failed |-> urlretrieve(path, files, outcome).raised]
    ELSE [ret |-> path, raised |-> FALSE, fs |-> files, cp |-> cp,
          looked |-> path, existed |-> TRUE, url |-> None, failed |-> FALSE]

\* if not codepoints: return None
named_image(cp, files, outcome) ==
    IF cp = <<>>
    THEN [ret |-> None, raised |-> FALSE, fs |-> files, cp |-> cp,
          looked |-> None, existed |-> FALSE, url |-> None, failed |-> FALSE]
    ELSE fetch_if_missing(cp, cache_path(cp), files, outcome)

get_emoji_image(emoji_char, files, outcome) ==
    named_image(codepoints(emoji_char), files, outcome)

(* c.drawImage(path, ...) reads and decodes the file: it raises on a file  *)
(* that is missing or whose image data is cut short.                       *)
drawImage_raises(path, files) == ~exists(path, files) \/ files[path] # "full"

NoCall == [called |-> FALSE, arg |-> <<>>, drew |-> 0,
           ret |-> None, raised |-> FALSE, cp |-> <<>>,
           looked |-> None, existed |-> FALSE, url |-> None, failed |-> FALSE]

Called(arg, r, drew) ==
    [called |-> TRUE, arg |-> arg, drew |-> drew,
     ret |-> r.ret, raised |-> r.raised, cp |-> r.cp,
     looked |-> r.looked, existed |-> r.existed, url |-> r.url, failed |-> r.failed]

----------------------------------------------------------------------------
(* create_leaflet *)

(* The get_emoji_image calls of create_leaflet in order: the line of the   *)
(* call, its argument, the number of drawImage calls under `if emoji_path`,*)
(* and the lines of the drawString / drawCentredString / roundRect /       *)
(* draw_rounded_rect / line calls that follow up to the next call.         *)
EmojiCalls == <<
    [line |-> 122, emoji |-> <<127973>>, imgs |-> 1, draws |-> <<125, 130, 136>>],
    [line |-> 142, emoji |-> <<9749>>,   imgs |-> 1, draws |-> <<145, 149, 157, 161, 164, 168>>],
    [line |-> 169, emoji |-> <<128341>>, imgs |-> 1, draws |-> <<174, 179, 181>>],
    [line |-> 186, emoji |-> <<128205>>, imgs |-> 1, draws |-> <<189>>],
    [line |-> 195, emoji |-> <<128222>>, imgs |-> 1, draws |-> <<198>>],
    [line |-> 200, emoji |-> <<128172>>, imgs |-> 1, draws |-> <<203>>],
    [line |-> 205, emoji |-> <<128231>>, imgs |-> 1, draws |-> <<208>>],
    [line |-> 215, emoji |-> <<128172>>, imgs |-> 1, draws |-> <<218, 222, 229, 233, 236, 240, 243, 248>>],
    [line |-> 253, emoji |-> <<128172>>, imgs |-> 1, draws |-> <<256, 261>>],
    [line |-> 268, emoji |-> <<128222>>, imgs |-> 1, draws |-> <<271, 279, 285, 289, 290, 293, 294, 298>>],
    [line |-> 301, emoji |-> <<128222>>, imgs |-> 1, draws |-> <<304, 307, 313, 317, 318, 321, 322, 326>>],
    [line |-> 329, emoji |-> <<128222>>, imgs |-> 1, draws |-> <<332, 338>>],
    [line |-> 344, emoji |-> <<128680>>, imgs |-> 1, draws |-> <<347, 351, 358, 362, 365, 370, 372, 377, 378>>],
    [line |-> 381, emoji |-> <<128222>>, imgs |-> 2, draws |-> <<385, 386, 394>>] >>

\* the label and footer calls after the QR block
FooterDraws == <<411, 415, 420, 425>>
\* c.save()
SaveLine == <<427>>

NoQr == [existed |-> FALSE, fetched |-> FALSE, failed |-> FALSE, drawn |-> FALSE,
         raised |-> FALSE]

\* the QR block without its try/except
qr_block_unguarded(files, outcome) ==
    LET r == urlretrieve(qr_path, files, outcome)
    IN  [fs |-> r.fs, existed |-> exists(qr_path, files) /\ files[qr_path] = "full",
         fetched |-> TRUE, failed |-> r.raised,
         drawn |-> ~r.raised /\ ~drawImage_raises(qr_path, r.fs),
         raised |-> r.raised]

(* try: urlretrieve(qr_url, qr_path); c.drawImage(qr_path, ...)            *)
(* except: pass                                                            *)
qr_block(files, outcome) ==
    LET r == urlretrieve(qr_path, files, outcome)
    IN  [fs |-> r.fs, existed |-> exists(qr_path, files) /\ files[qr_path] = "full",
         fetched |-> TRUE, failed |-> r.raised,
         drawn |-> ~r.raised /\ ~drawImage_raises(qr_path, r.fs),
         raised |-> FALSE]

InitLeaflet ==
    /\ mode = "leaflet"
    /\ pc = "emoji"
    /\ step = 1
    /\ fs = <<>>
    /\ texts = <<>>
    /\ last = NoCall
    /\ qr = NoQr
    /\ returned = None
    /\ first = TRUE
    /\ clean = TRUE
    /\ prevClean = FALSE
    /\ text = <<>>
    /\ i = 0
    /\ pieces = <<>>
    /\ ncalls = 0

\* emoji_path = get_emoji_image(...); if emoji_path: c.drawImage(...); then the draws that follow
EmojiStep ==
    /\ mode = "leaflet"
    /\ pc = "emoji"
    /\ \E o \in Outcomes :
      \E r \in {get_emoji_image(EmojiCalls[step].emoji, fs, o)} :
        LET call == EmojiCalls[step]
            crash == r.raised \/ (r.ret # None /\ drawImage_raises(r.ret, r.fs))
        IN  /\ fs' = r.fs
            /\ clean' = (clean /\ ~r.failed)
            /\ last' = Called(call.emoji, r, IF r.ret # None /\ ~crash THEN call.imgs ELSE 0)
            /\ texts' = IF crash THEN texts ELSE texts \o call.draws
            /\ step' = IF crash THEN step ELSE step + 1
            /\ pc' = IF crash THEN "crashed"
                     ELSE IF step = Len(EmojiCalls) THEN "qr" ELSE "emoji"
    /\ UNCHANGED <<mode, qr, returned, first, prevClean, text, i, pieces, ncalls>>

\* the QR block, then the label and the footer
QRStep ==
    /\ mode = "leaflet"
    /\ pc = "qr"
    /\ \E o \in Outcomes :
      \E r \in {qr_block(fs, o)} :
            /\ fs' = r.fs
            /\ qr' = [existed |-> r.existed, fetched |-> r.fetched, failed |-> r.failed,
                      drawn |-> r.drawn, raised |-> r.raised]
            /\ texts' = IF r.raised THEN texts ELSE texts \o FooterDraws
            /\ pc' = IF r.raised THEN "crashed" ELSE "save"
    /\ UNCHANGED <<mode, step, last, returned, first, clean, prevClean, text, i, pieces, ncalls>>

\* c.save(); print(...); return output_path
Save ==
    /\ mode = "leaflet"
    /\ pc = "save"
    /\ texts' = texts \o SaveLine
    /\ returned' = output_path
    /\ pc' = "done"
    /\ UNCHANGED <<mode, step, fs, last, qr, first, clean, prevClean, text, i, pieces, ncalls>>

\* the script is run again; /tmp is kept
Rerun ==
    /\ mode = "leaflet"
    /\ pc \in {"done", "crashed"}
    /\ pc' = "emoji"
    /\ step' = 1
    /\ first' = FALSE
    /\ prevClean' = clean
    /\ clean' = TRUE
    /\ texts' = <<>>
    /\ last' = NoCall
    /\ qr' = NoQr
    /\ returned' = None
    /\ UNCHANGED <<mode, fs, text, i, pieces, ncalls>>

----------------------------------------------------------------------------
(* draw_text_with_emoji *)

is_emoji(c) == c > EmojiThreshold

continues_emoji(c) == c > EmojiThreshold \/ c = VS16 \/ c = ZWJ

\* while j < len(text) and (...): j += 1     (j is 0-based)
RECURSIVE emoji_end(_, _)
emoji_end(t, j) == IF j < Len(t) /\ continues_emoji(t[j + 1])
                   THEN emoji_end(t, j + 1) ELSE j

\* while i < len(text) and ord(text[i]) <= 0x1F300: i += 1
RECURSIVE chunk_end(_, _)
chunk_end(t, k) == IF k < Len(t) /\ ~is_emoji(t[k + 1])
                   THEN chunk_end(t, k + 1) ELSE k

InitDraw ==
    /\ mode = "draw"
    /\ pc = "loop"
    /\ step = 0
    /\ text \in Strings
    /\ i = 0
    /\ pieces = <<>>
    /\ fs = <<>>
    /\ texts = <<>>
    /\ last = NoCall
    /\ qr = NoQr
    /\ returned = None
    /\ first = FALSE
    /\ clean = TRUE
    /\ prevClean = FALSE
    /\ ncalls = 0

\* one iteration of the outer loop, emoji branch
ScanEmoji ==
    /\ mode = "draw"
    /\ pc = "loop"
    /\ i < Len(text)
    /\ is_emoji(text[i + 1])
    /\ \E o \in Outcomes :
      \E j \in {emoji_end(text, i + 1)} :
      \E r \in {get_emoji_image(SubSeq(text, i + 1, j), fs, o)} :
        LET emoji == SubSeq(text, i + 1, j)
            draws == r.ret # None /\ exists(r.ret, r.fs)
            crash == r.raised \/ (draws /\ drawImage_raises(r.ret, r.fs))
        IN  /\ fs' = r.fs
            /\ clean' = (clean /\ ~r.failed)
            /\ last' = Called(emoji, r, IF draws /\ ~crash THEN 1 ELSE 0)
            /\ pieces' = Append(pieces, [kind |-> "emoji", from |-> i, to |-> j])
            /\ i' = IF crash THEN i ELSE j
            /\ pc' = IF crash THEN "crashed" ELSE "loop"
    /\ UNCHANGED <<mode, step, texts, qr, returned, first, prevClean, text, ncalls>>

\* one iteration of the outer loop, text branch
ScanText ==
    /\ mode = "draw"
    /\ pc = "loop"
    /\ i < Len(text)
    /\ ~is_emoji(text[i + 1])
    /\ LET k == chunk_end(text, i)
       IN  /\ pieces' = IF k > i THEN Append(pieces, [kind |-> "text", from |-> i, to |-> k])
                        ELSE pieces
           /\ i' = k
    /\ UNCHANGED <<mode, step, pc, fs, texts, last, qr, returned, first, clean, prevClean, text, ncalls>>

\* the loop condition fails: return current_x
ScanReturn ==
    /\ mode = "draw"
    /\ pc = "loop"
    /\ i >= Len(text)
    /\ pc' = "returned"
    /\ UNCHANGED <<mode, step, fs, texts, last, qr, returned, first, clean, prevClean, text, i, pieces, ncalls>>

----------------------------------------------------------------------------
(* get_emoji_image called on its own *)

InitGet ==
    /\ mode = "get"
    /\ pc = "idle"
    /\ step = 0
    /\ text \in Strings
    /\ i = 0
    /\ pieces = <<>>
    /\ fs = <<>>
    /\ texts = <<>>
    /\ last = NoCall
    /\ qr = NoQr
    /\ returned = None
    /\ first = FALSE
    /\ clean = TRUE
    /\ prevClean = FALSE
    /\ ncalls = 0

GetCall ==
    /\ mode = "get"
    /\ pc = "idle"
    /\ ncalls < MaxCalls
    /\ \E o \in Outcomes :
      \E r \in {get_emoji_image(text, fs, o)} :
            /\ fs' = r.fs
            /\ clean' = (clean /\ ~r.failed)
            /\ last' = Called(text, r, 0)
            /\ pc' = IF r.raised THEN "crashed" ELSE "idle"
    /\ ncalls' = ncalls + 1
    /\ UNCHANGED <<mode, step, texts, qr, returned, first, prevClean, text, i, pieces>>

----------------------------------------------------------------------------

Init == InitLeaflet \/ InitDraw \/ InitGet

Next ==
    \/ EmojiStep
    \/ QRStep
    \/ Save
    \/ Rerun
    \/ ScanEmoji
    \/ ScanText
    \/ ScanReturn
    \/ GetCall

Spec == Init /\ [][Next]_vars

----------------------------------------------------------------------------
(* Properties *)

InLeaflet == mode = "leaflet"
InDraw == mode = "draw"

\* no character of s is above 255
NoHigh(s) == \A k \in 1..Len(s) : s[k] <= 255

High(c) == c > 255

LowerHex == {"0", "1", "2", "3", "4", "5", "6", "7", "8", "9", "a", "b", "c", "d", "e", "f"}

\* the value of a lowercase hexadecimal digit
DigitValue(ch) ==
    CASE ch = "0" -> 0 [] ch = "1" -> 1 [] ch = "2" -> 2 [] ch = "3" -> 3
      [] ch = "4" -> 4 [] ch = "5" -> 5 [] ch = "6" -> 6 [] ch = "7" -> 7
      [] ch = "8" -> 8 [] ch = "9" -> 9 [] ch = "a" -> 10 [] ch = "b" -> 11
      [] ch = "c" -> 12 [] ch = "d" -> 13 [] ch = "e" -> 14 [] ch = "f" -> 15

\* reading a name back: the numbers written in it, split at '-'; acc is the
\* number being read and open says a number has begun
RECURSIVE Decode(_, _, _)
Decode(name, acc, open) ==
    IF name = <<>> THEN (IF open THEN <<acc>> ELSE <<>>)
    ELSE IF Head(name) = "-" THEN <<acc>> \o Decode(Tail(name), 0, FALSE)
    ELSE Decode(Tail(name), acc * 16 + DigitValue(Head(name)), TRUE)

\* the drawing calls of a run of create_leaflet in which nothing fails
RECURSIVE DrawsFrom(_)
DrawsFrom(k) == IF k > Len(EmojiCalls) THEN <<>>
                ELSE EmojiCalls[k].draws \o DrawsFrom(k + 1)
ReferenceTexts == DrawsFrom(1) \o FooterDraws \o SaveLine

EndsWith(s, t) == Len(s) >= Len(t) /\ SubSeq(s, Len(s) - Len(t) + 1, Len(s)) = t

\* C1: for every combination of fetch outcomes a run of create_leaflet
\* completes (c.save(), the message, the return of output_path): a run never
\* ends in an exception.
C1_RunCompletes == InLeaflet => pc # "crashed"

\* C2: get_emoji_image issues a fetch only when no cache file exists for the
\* name, and in a run that follows a run in which every emoji fetch succeeded
\* no emoji fetch is issued.
C2_CacheReused ==
    /\ (last.called /\ last.url # None) => ~last.existed
    /\ (InLeaflet /\ prevClean) => last.url = None

\* a second run, after a run whose fetches all succeeded, has made its last call
C2_Witness ==
    InLeaflet /\ prevClean /\ pc = "done" /\ last.called /\ last.existed /\ last.drew = 2

\* C3: in a run that starts with the complete /tmp/leaflet_qr.png of an
\* earlier successful QR fetch, no QR fetch is issued and the cached image is
\* drawn.
C3_QrReused ==
    (InLeaflet /\ pc \in {"save", "done"} /\ qr.existed) => (~qr.fetched /\ qr.drawn)

\* C4: get_emoji_image never raises; it returns None or the cache path; None
\* exactly when no character is above 255 or no cache file existed and the
\* fetch failed; a returned path names an existing file; and on None the
\* caller draws no image.
C4_NoFailureReported ==
    last.called =>
        /\ ~last.raised
        /\ pc # "crashed" \/ last.ret # None
        /\ last.ret \in {None, <<"/tmp/emoji_cache", "/">> \o last.cp \o <<".png">>}
        /\ (last.ret = None) <=> (NoHigh(last.arg) \/ (~last.existed /\ last.failed))
        /\ last.ret # None => last.ret \in DOMAIN fs
        /\ last.ret = None => last.drew = 0

\* a call whose fetch failed returned None
C4_Witness ==
    last.called /\ ~NoHigh(last.arg) /\ last.failed /\ last.ret = None /\ last.url # None

\* C5: when the QR fetch fails no QR image is drawn, nothing is raised, and
\* the label, the footer and c.save() follow in order.
C5_QrFailureSkipped ==
    (InLeaflet /\ qr.fetched /\ qr.failed) =>
        /\ ~qr.drawn
        /\ ~qr.raised
        /\ pc \in {"save", "done"}
        /\ pc = "save" => (EndsWith(texts, FooterDraws) /\ ENABLED Save)
        /\ pc = "done" => (EndsWith(texts, FooterDraws \o SaveLine) /\ returned = output_path)

\* a run whose QR fetch failed has returned
C5_Witness == InLeaflet /\ qr.fetched /\ qr.failed /\ pc = "done" /\ returned = output_path

\* C6: the name is the lowercase hexadecimal codepoints of exactly the
\* characters above 255, in order, joined by '-', followed by '.png'; the
\* same string is used in the cache path and in the URL; and an argument with
\* no character above 255 gives None with no lookup and no fetch.
C6_CacheName ==
    last.called =>
        /\ \A k \in 1..Len(last.cp) : last.cp[k] \in LowerHex \cup {"-"}
        /\ Decode(last.cp, 0, FALSE) = SelectSeq(last.arg, High)
        /\ last.looked # None =>
              last.looked = <<"/tmp/emoji_cache", "/">> \o last.cp \o <<".png">>
        /\ last.url # None =>
              last.url = <<"https://cdn.jsdelivr.net/gh/twitter/twemoji@14.0.2/assets/72x72/">>
                             \o last.cp \o <<".png">>
        /\ NoHigh(last.arg) => (last.ret = None /\ last.looked = None /\ last.url = None)
        /\ ~NoHigh(last.arg) => last.looked # None

\* a fetch for an argument that mixes two characters above 255 with one that is not
C6_Witness ==
    /\ last.called
    /\ last.url # None
    /\ Len(SelectSeq(last.arg, High)) = 2
    /\ Len(last.arg) = 3

RegionalIndicator(c) == c >= 127462 /\ c <= 127487

\* a character that is an emoji by itself
Symbol(c) == High(c) /\ c \notin {VS16, ZWJ} /\ ~RegionalIndicator(c)

\* positions p and p + 1 of text (1-based) belong to one emoji sequence: a
\* flag, a symbol followed by U+FE0F, or two symbols joined by U+200D
OneSequence(p) ==
    \/ RegionalIndicator(text[p]) /\ RegionalIndicator(text[p + 1])
    \/ Symbol(text[p]) /\ text[p + 1] = VS16
    \/ /\ Symbol(text[p]) /\ text[p + 1] = ZWJ
       /\ p + 2 <= Len(text) /\ Symbol(text[p + 2])
    \/ /\ text[p] = ZWJ /\ Symbol(text[p + 1])
       /\ p > 1 /\ Symbol(text[p - 1])

\* C7: draw_text_with_emoji passes a multi-character emoji sequence (a flag,
\* characters joined by U+200D or followed by U+FE0F) to get_emoji_image whole,
\* in one call, and draws none of it as text.
C7_SequencePassedWhole ==
    (InDraw /\ pc = "returned") =>
        \A p \in 1..(Len(text) - 1) :
            OneSequence(p) =>
                \E q \in 1..Len(pieces) :
                    /\ pieces[q].kind = "emoji"
                    /\ pieces[q].from < p
                    /\ p + 1 <= pieces[q].to

\* the pieces cover text[0..n) once and in order
RECURSIVE Tiles(_, _, _)
Tiles(ps, from, n) ==
    IF ps = <<>> THEN from = n
    ELSE Head(ps).from = from /\ Head(ps).to > from /\ Tiles(Tail(ps), Head(ps).to, n)

\* C8: for every input the loop of draw_text_with_emoji ends with every
\* character consumed exactly once and in order, into a text chunk or an
\* emoji sequence, the index having reached the end of the text.
C8_EveryCharConsumed ==
    (InDraw /\ pc \in {"returned", "crashed"}) =>
        (i = Len(text) /\ Tiles(pieces, 0, Len(text)))

\* C9: the text, box and line calls of a run do not depend on which fetches
\* succeed: every run from the same files makes the calls of the run in which
\* every fetch succeeds.
C9_TextsIndependentOfNetwork ==
    (InLeaflet /\ first /\ pc \in {"done", "crashed"}) => texts = ReferenceTexts

\* C10: a cache file exists for an emoji only if a fetch for it completed.
C10_CacheOnlyCompleteDownloads ==
    \A p \in DOMAIN fs : p # qr_path => fs[p] = "full"

====
